---- MODULE Spec2Model ----
(***************************************************************************)
(* Model of the PokesweepApp scrape handlers (api/scrapeSet.js and its     *)
(* headless-browser variants): the field extractors, the record assembly,  *)
(* the filter/limit stage and the handler's control flow.                  *)
(*                                                                         *)
(* Text is a sequence of one-character strings.  A JavaScript number that  *)
(* cleanNum produces is kept as its decimal numeral (a sequence of digit   *)
(* characters without leading zeros), so that values beyond the model      *)
(* checker's machine integers keep the value an IEEE-754 double gives them.*)
(***************************************************************************)
EXTENDS Integers, Sequences, FiniteSets, TLC

VARIABLES
    variant,     \* which handler file is running
    pc,          \* the handler's position (one value per await point)
    req,         \* req.query: setSlug, pokemonName, cardNumber, limit
    upstream,    \* r.status of the direct fetch (0 before it resolves)
    dom,         \* the parsed document ($), a sequence of nodes
    chosen,      \* the elements the block loop iterates over (best / candidates)
    browser,     \* "none" | "open" | "closed"
    elapsed,     \* milliseconds the handler has spent in timed waits
    threw,       \* an exception has reached the handler's catch block
    kept,        \* blocks / kept / rows pushed by the block loop
    rows,        \* after de-duplication
    filtered,    \* after the optional filters
    ranked,      \* after the sort (broad sweep)
    lim,         \* the computed limit [set, nan, val]
    out,         \* the slice that is returned
    res,         \* the responses sent, in order
    fn,          \* extractor harness: the function applied
    input,       \* extractor harness: its argument
    result       \* extractor harness: its result

vars == <<variant, pc, req, upstream, dom, chosen, browser, elapsed, threw, kept,
          rows, filtered, ranked, lim, out, res, fn, input, result>>

harnessVars == <<fn, input, result>>

stageVars == <<chosen, kept, rows, filtered, ranked, lim, out>>

-----------------------------------------------------------------------------
(* Characters and strings *)

\* JavaScript null / undefined for a string-or-null or number-or-null value
Null == <<"null">>

Digits == {"0", "1", "2", "3", "4", "5", "6", "7", "8", "9"}

DigitSeq == <<"0", "1", "2", "3", "4", "5", "6", "7", "8", "9">>

UpperSeq == <<"A", "B", "C", "D", "E", "F", "G", "H", "I", "J", "K", "L", "M",
              "N", "O", "P", "Q", "R", "S", "T", "U", "V", "W", "X", "Y", "Z">>

LowerSeq == <<"a", "b", "c", "d", "e", "f", "g", "h", "i", "j", "k", "l", "m",
              "n", "o", "p", "q", "r", "s", "t", "u", "v", "w", "x", "y", "z">>

\* \d
IsDigit(c) == c \in Digits

\* \s (the model's texts use the space and the newline)
IsSpace(c) == c \in {" ", "\n"}

IsUpper(c) == \E i \in 1..26 : UpperSeq[i] = c

IsLower(c) == \E i \in 1..26 : LowerSeq[i] = c

\* String.prototype.toLowerCase, one character
LowerChar(c) ==
    IF IsUpper(c) THEN LowerSeq[CHOOSE i \in 1..26 : UpperSeq[i] = c] ELSE c

\* String.prototype.toLowerCase
toLowerCase(s) == [i \in 1..Len(s) |-> LowerChar(s[i])]

\* Number of consecutive characters of s from position i on that satisfy P
RECURSIVE RunLen(_, _, _)
RunLen(P(_), s, i) ==
    IF i > Len(s) \/ ~P(s[i]) THEN 0 ELSE 1 + RunLen(P, s, i + 1)

\* s with every character satisfying P removed
RECURSIVE Remove(_, _)
Remove(P(_), s) ==
    IF s = <<>> THEN <<>>
    ELSE IF P(Head(s)) THEN Remove(P, Tail(s))
    ELSE <<Head(s)>> \o Remove(P, Tail(s))

\* the element of a one-element set; The({e(x) : x \in {v}}) is e with x
\* standing for the value of v, computed once
The(S) == CHOOSE v \in S : TRUE

\* s.replace(/\s+/g, "")
StripWs(s) == Remove(IsSpace, s)

\* String.prototype.trim
RECURSIVE TrimLeft(_)
TrimLeft(s) ==
    IF s # <<>> /\ IsSpace(Head(s)) THEN TrimLeft(Tail(s)) ELSE s

RECURSIVE TrimRight(_)
TrimRight(s) ==
    IF s # <<>> /\ IsSpace(s[Len(s)]) THEN TrimRight(SubSeq(s, 1, Len(s) - 1))
    ELSE s

trim(s) == The({TrimRight(t) : t \in {TrimLeft(s)}})

\* s.replace(/\s+/g, " "): every run of whitespace becomes one space
RECURSIVE CollapseWs(_)
CollapseWs(s) ==
    IF s = <<>> THEN <<>>
    ELSE IF IsSpace(Head(s))
         THEN <<" ">> \o CollapseWs(TrimLeft(s))
         ELSE <<Head(s)>> \o CollapseWs(Tail(s))

\* $el.text().replace(/\s+/g, " ").trim()
NormalizeText(s) == The({trim(t) : t \in {CollapseWs(s)}})

\* String.prototype.includes
includes(s, q) ==
    \E i \in 1..(Len(s) - Len(q) + 1) : SubSeq(s, i, i + Len(q) - 1) = q

\* hay matches the literal word w at position i, ignoring case (the /i flag)
MatchesAtCI(s, i, w) ==
    /\ i + Len(w) - 1 <= Len(s)
    /\ \A k \in 1..Len(w) : LowerChar(s[i + k - 1]) = LowerChar(w[k])

\* s.slice(a - 1, b) in 1-based inclusive positions, clamped to the string
Slice(s, a, b) ==
    LET lo == IF a < 1 THEN 1 ELSE a
        hi == IF b > Len(s) THEN Len(s) ELSE b
    IN  [k \in 1..(hi - lo + 1) |-> s[lo + k - 1]]

Min(a, b) == IF a < b THEN a ELSE b

Max(a, b) == IF a > b THEN a ELSE b

-----------------------------------------------------------------------------
(* Number(m) for a string of digits: the decimal numeral of the double *)

DigitVal(c) == (CHOOSE i \in 1..10 : DigitSeq[i] = c) - 1

DigitChar(n) == DigitSeq[n + 1]

\* the numeral without leading zeros ("0" for zero)
RECURSIVE StripZeros(_)
StripZeros(ds) ==
    IF Len(ds) > 1 /\ Head(ds) = "0" THEN StripZeros(Tail(ds)) ELSE ds

\* a < b for two numerals without leading zeros
RECURSIVE NumLess(_, _)
NumLess(a, b) ==
    IF Len(a) # Len(b) THEN Len(a) < Len(b)
    ELSE IF a = <<>> THEN FALSE
    ELSE IF Head(a) # Head(b) THEN DigitVal(Head(a)) < DigitVal(Head(b))
    ELSE NumLess(Tail(a), Tail(b))

\* long division by two: [q |-> quotient digits (unstripped), r |-> remainder]
RECURSIVE HalfFrom(_, _)
HalfFrom(ds, carry) ==
    IF ds = <<>> THEN [q |-> <<>>, r |-> carry]
    ELSE The({[q |-> <<DigitChar(cur \div 2)>> \o rest.q, r |-> rest.r] :
                 cur \in {carry * 10 + DigitVal(Head(ds))},
                 rest \in {HalfFrom(Tail(ds), (carry * 10 + DigitVal(Head(ds))) % 2)}})

\* a numeral times two plus carryIn (0 or 1), digits from the right
RECURSIVE DoubleFrom(_, _)
DoubleFrom(ds, carryIn) ==
    IF ds = <<>> THEN (IF carryIn = 0 THEN <<>> ELSE <<DigitChar(carryIn)>>)
    ELSE LET last == DigitVal(ds[Len(ds)]) * 2 + carryIn
         IN  DoubleFrom(SubSeq(ds, 1, Len(ds) - 1), last \div 10)
                 \o <<DigitChar(last % 10)>>

NumDouble(ds) == StripZeros(DoubleFrom(ds, 0))

RECURSIVE NumInc(_)
NumInc(ds) ==
    IF ds = <<>> THEN <<"1">>
    ELSE IF ds[Len(ds)] = "9" THEN NumInc(SubSeq(ds, 1, Len(ds) - 1)) \o <<"0">>
    ELSE SubSeq(ds, 1, Len(ds) - 1) \o <<DigitChar(DigitVal(ds[Len(ds)]) + 1)>>

RECURSIVE NumShl(_, _)
NumShl(ds, k) ==
    IF k = 0 THEN ds ELSE The({NumShl(d, k - 1) : d \in {NumDouble(ds)}})

IsOdd(ds) == DigitVal(ds[Len(ds)]) % 2 = 1

\* 2^53: a double holds every integer below it in its 53-bit significand
TwoPow53 == <<"9", "0", "0", "7", "1", "9", "9", "2", "5", "4", "7", "4",
              "0", "9", "9", "2">>

\* round-to-nearest, ties-to-even, of the integer n to a 53-bit significand
RECURSIVE RoundShift(_, _, _, _)
RoundShift(q, guard, sticky, k) ==
    IF NumLess(q, TwoPow53)
    THEN LET up == guard = 1 /\ (sticky = 1 \/ IsOdd(q))
         IN  NumShl(IF up THEN NumInc(q) ELSE q, k)
    ELSE The({RoundShift(StripZeros(h.q), h.r, Max(sticky, guard), k + 1) :
                 h \in {HalfFrom(q, 0)}})

\* Number(m), m a non-empty string of decimal digits
NumberOfDigits(m) ==
    The({RoundShift(q, 0, 0, 0) : q \in {StripZeros(m)}})

-----------------------------------------------------------------------------
(* Field extractors *)

IsNonDigit(c) == ~IsDigit(c)

\* cleanNum without the replace(/[^\d]/g, ""): Number() of a string that
\* holds anything but digits is NaN, which the callers take for no value
cleanNumNoReplace(s) ==
    IF s = <<>> \/ s = Null THEN Null
    ELSE IF \A i \in 1..Len(s) : IsDigit(s[i]) THEN NumberOfDigits(s)
    ELSE Null

\* function cleanNum(s)
cleanNum(s) ==
    IF s = <<>> \/ s = Null THEN Null
    ELSE The({IF m # <<>> THEN NumberOfDigits(m) ELSE Null :
                 m \in {Remove(IsNonDigit, s)}})

\* [0-9,]
IsNumChar(c) == IsDigit(c) \/ c = ","

PSA == <<"P", "S", "A">>

\* position after the whitespace run that starts at i (\s*)
SkipWs(s, i) == i + RunLen(IsSpace, s, i)

\* One attempt of /PSA\s*([0-9]{1,2})\s*([0-9,]+)/i at position i:
\* [ok, grade, value, end] where end is the index after the match.
\* [0-9]{1,2} is greedy: two digits are tried first, then one.
GradeMatchAt(s, i) ==
    LET j == SkipWs(s, i + 3)
        d == RunLen(IsDigit, s, j)
        try(glen) ==
            LET k == SkipWs(s, j + glen)
                v == RunLen(IsNumChar, s, k)
            IN  [ok    |-> d >= glen /\ v >= 1,
                 grade |-> Slice(s, j, j + glen - 1),
                 value |-> Slice(s, k, k + v - 1),
                 end   |-> k + v]
        no == [ok |-> FALSE, grade |-> <<>>, value |-> <<>>, end |-> i]
    IN  IF ~MatchesAtCI(s, i, PSA) THEN no
        ELSE IF try(2).ok THEN try(2)
        ELSE IF try(1).ok THEN try(1)
        ELSE no

\* rx.exec(text) with lastIndex = i: the leftmost match at or after i
RECURSIVE GradeExec(_, _)
GradeExec(s, i) ==
    IF i > Len(s) THEN [ok |-> FALSE, grade |-> <<>>, value |-> <<>>, end |-> i]
    ELSE IF GradeMatchAt(s, i).ok THEN GradeMatchAt(s, i)
    ELSE GradeExec(s, i + 1)

RECURSIVE FindGradesFrom(_, _)
FindGradesFrom(s, i) ==
    The({IF ~m.ok THEN <<>>
         ELSE <<[grade |-> m.grade, value |-> cleanNum(m.value)]>>
                  \o FindGradesFrom(s, m.end) :
            m \in {GradeExec(s, i)}})

\* function findGrades(text): every occurrence, in order
findGrades(text) == The({FindGradesFrom(s, 1) : s \in {text}})

\* the key `PSA ${grade}`
GradeKey(grade) == PSA \o <<" ">> \o grade

\* an assignment that leaves a key alone once it is set
AssignOnce(grades, key, val) ==
    [k \in (DOMAIN grades) \cup {key} |->
        IF k \in DOMAIN grades THEN grades[k] ELSE val]

\* grades[key] = val: assignment into the mapping overwrites
Assign(grades, key, val) ==
    [k \in (DOMAIN grades) \cup {key} |-> IF k = key THEN val ELSE grades[k]]

\* the empty object {}
EmptyMap == [k \in {} |-> Null]

RECURSIVE GradesMapLoop(_, _)
GradesMapLoop(list, grades) ==
    IF list = <<>> THEN grades
    ELSE The({GradesMapLoop(Tail(list), next) :
                 next \in {IF Head(list).value # Null
                           THEN Assign(grades, GradeKey(Head(list).grade),
                                       Head(list).value)
                           ELSE grades}})

\* function extractGradesMap(text)
extractGradesMap(text) ==
    The({GradesMapLoop(list, EmptyMap) : list \in {findGrades(text)}})

RECURSIVE ExtractGradesFrom(_, _, _)
ExtractGradesFrom(s, i, grades) ==
    The({IF ~m.ok THEN grades
         ELSE The({ExtractGradesFrom(s, m.end, next) :
                      next \in {IF cleanNum(m.value) # Null
                                THEN Assign(grades, GradeKey(m.grade),
                                            cleanNum(m.value))
                                ELSE grades}}) :
            m \in {GradeExec(s, i)}})

\* function extractGrades(text): the while loop over rx.exec
extractGrades(text) == The({ExtractGradesFrom(s, 1, EmptyMap) : s \in {text}})

TotalWord == <<"T", "o", "t", "a", "l">>

PopulationWord == <<"P", "o", "p", "u", "l", "a", "t", "i", "o", "n">>

\* Population\s*([0-9,]+) at position i: [ok, value]
PopulationAt(s, i) ==
    LET k == SkipWs(s, i + Len(PopulationWord))
        v == RunLen(IsNumChar, s, k)
    IN  [ok    |-> MatchesAtCI(s, i, PopulationWord) /\ v >= 1,
         value |-> Slice(s, k, k + v - 1)]

\* Total\s*Population\s*([0-9,]+) at position i
TotalPopulationAt(s, i) ==
    IF MatchesAtCI(s, i, TotalWord)
    THEN PopulationAt(s, SkipWs(s, i + Len(TotalWord)))
    ELSE [ok |-> FALSE, value |-> <<>>]

RECURSIVE ExtractTotalFrom(_, _, _)
ExtractTotalFrom(s, i, loose) ==
    IF i > Len(s) THEN Null
    ELSE IF TotalPopulationAt(s, i).ok THEN cleanNum(TotalPopulationAt(s, i).value)
    ELSE IF loose /\ PopulationAt(s, i).ok THEN cleanNum(PopulationAt(s, i).value)
    ELSE ExtractTotalFrom(s, i + 1, loose)

\* function extractTotal(text), /Total\s*Population\s*([0-9,]+)/i
extractTotal(text) == The({ExtractTotalFrom(s, 1, FALSE) : s \in {text}})

\* function extractTotal(text), /(Total\s*)?Population\s*([0-9,]+)/i
extractTotalLoose(text) == The({ExtractTotalFrom(s, 1, TRUE) : s \in {text}})

\* /total\s*population/i.test(text)
RECURSIVE HasTotalMarkerFrom(_, _)
HasTotalMarkerFrom(s, i) ==
    IF i > Len(s) THEN FALSE
    ELSE IF MatchesAtCI(s, i, TotalWord)
            /\ MatchesAtCI(s, SkipWs(s, i + Len(TotalWord)), PopulationWord)
         THEN TRUE
    ELSE HasTotalMarkerFrom(s, i + 1)

HasTotalMarker(text) == The({HasTotalMarkerFrom(s, 1) : s \in {text}})

\* One attempt of /(\d{1,4}\s*\/\s*\d{1,4})/ at position i: [ok, first, second, end].
\* \d{1,4} can give digits back, but what then follows is a digit, never
\* whitespace or the slash: the run of digits at i must be 1 to 4 long.
FractionAt(s, i) ==
    LET d1 == RunLen(IsDigit, s, i)
        sl == SkipWs(s, i + d1)
        j  == SkipWs(s, sl + 1)
        d2 == Min(4, RunLen(IsDigit, s, j))
    IN  [ok     |-> /\ d1 >= 1 /\ d1 <= 4
                    /\ sl <= Len(s) /\ s[sl] = "/"
                    /\ d2 >= 1,
         first  |-> Slice(s, i, i + d1 - 1),
         second |-> Slice(s, j, j + d2 - 1),
         match  |-> Slice(s, i, j + d2 - 1),
         end    |-> j + d2]

RECURSIVE FractionExec(_, _)
FractionExec(s, i) ==
    IF i > Len(s)
    THEN [ok |-> FALSE, first |-> <<>>, second |-> <<>>, match |-> <<>>, end |-> i]
    ELSE IF FractionAt(s, i).ok THEN FractionAt(s, i)
    ELSE FractionExec(s, i + 1)

\* the extractor without the replace(/\s+/g, "") on the match
extractCardNumberRaw(text) ==
    IF text = Null THEN Null
    ELSE The({IF m.ok THEN m.match ELSE Null : m \in {FractionExec(text, 1)}})

\* function extractCardNumber(text) / extractCardNumberChunk(text)
extractCardNumber(text) ==
    IF text = Null THEN Null
    ELSE The({IF m.ok THEN StripWs(m.match) ELSE Null :
                 m \in {FractionExec(text, 1)}})

\* [A-Za-z0-9'\- :] and the typographic apostrophe U+2019, which no text of
\* the model holds (the module is ASCII)
IsNameChar(c) ==
    IsUpper(c) \/ IsLower(c) \/ IsDigit(c) \/ c \in {"'", "-", " ", ":"}

\* \w
IsWordChar(c) == IsUpper(c) \/ IsLower(c) \/ IsDigit(c) \/ c = "_"

\* \b before position i of s
WordBoundary(s, i) ==
    LET before == i > 1 /\ i - 1 <= Len(s) /\ IsWordChar(s[i - 1])
        after  == i >= 1 /\ i <= Len(s) /\ IsWordChar(s[i])
    IN  before # after

PopWord == <<"P", "o", "p">>

UlationWord == <<"u", "l", "a", "t", "i", "o", "n">>

ReportWord == <<"R", "e", "p", "o", "r", "t">>

\* /\b(Pop(ulation)?\s*Report)\b/i at position i: [ok, end]
PopReportAt(s, i) ==
    LET a == IF MatchesAtCI(s, i + 3, UlationWord) THEN i + 3 + 7 ELSE i + 3
        r == SkipWs(s, a)
    IN  [ok  |-> /\ WordBoundary(s, i)
                 /\ MatchesAtCI(s, i, PopWord)
                 /\ MatchesAtCI(s, r, ReportWord)
                 /\ WordBoundary(s, r + 6),
         end |-> r + 6]

\* s.replace(/\b(Pop(ulation)?\s*Report)\b/i, ""): the first match is removed
RECURSIVE StripPopReportFrom(_, _)
StripPopReportFrom(s, i) ==
    IF i > Len(s) THEN s
    ELSE IF PopReportAt(s, i).ok
         THEN Slice(s, 1, i - 1) \o Slice(s, PopReportAt(s, i).end, Len(s))
    ELSE StripPopReportFrom(s, i + 1)

\* \s+\d{1,4}\s*\/\s*\d{1,4} at position p
NumberTailAt(s, p) ==
    LET w == RunLen(IsSpace, s, p)
        f == FractionAt(s, p + w)
    IN  w >= 1 /\ f.ok

\* the longest L in 2..n with the number tail right after s[i .. i+L-1]
\* (the greedy {2,60} gives characters back one at a time); 0 if none
RECURSIVE NameSpanLen(_, _, _)
NameSpanLen(s, i, n) ==
    IF n < 2 THEN 0
    ELSE IF NumberTailAt(s, i + n) THEN n
    ELSE NameSpanLen(s, i, n - 1)

RECURSIVE FallbackNameFrom(_, _)
FallbackNameFrom(s, i) ==
    IF i > Len(s) THEN <<>>
    ELSE The({IF n >= 2
              THEN The({trim(StripPopReportFrom(m1, 1)) :
                           m1 \in {Slice(s, i, i + n - 1)}})
              ELSE FallbackNameFrom(s, i + 1) :
                 n \in {NameSpanLen(s, i, Min(60, RunLen(IsNameChar, s, i)))}})

\* function fallbackNameFromText(text)
fallbackNameFromText(text) == The({FallbackNameFrom(s, 1) : s \in {text}})

-----------------------------------------------------------------------------
(* The parsed document: a sequence of element nodes in document order.     *)
(* A node is [tag, cls, parts]; parts are its text-bearing children in     *)
(* order, each [kind, text] with kind "text" for a bare text node and the  *)
(* tag or class the selectors look for otherwise.                          *)

\* concatenation of the texts of parts
RECURSIVE PartsText(_)
PartsText(parts) ==
    IF parts = <<>> THEN <<>> ELSE Head(parts).text \o PartsText(Tail(parts))

\* $el.text()
NodeText(node) == PartsText(node.parts)

\* $el.find(sel).first().text(), sel a selector list given as a set of kinds
RECURSIVE FirstText(_, _)
FirstText(parts, kinds) ==
    IF parts = <<>> THEN <<>>
    ELSE IF Head(parts).kind \in kinds THEN Head(parts).text
    ELSE FirstText(Tail(parts), kinds)

\* JavaScript a || b on strings
OrElse(a, b) == IF a # <<>> THEN a ELSE b

\* extractNameAndDetails of the direct-fetch and headless structural files:
\* one find per selector, the first non-empty result wins
extractNameAndDetails(node) ==
    [name    |-> OrElse(trim(FirstText(node.parts, {"h2"})),
                 OrElse(trim(FirstText(node.parts, {"h3"})),
                        trim(FirstText(node.parts, {"name"})))),
     details |-> OrElse(trim(FirstText(node.parts, {"p"})),
                        trim(FirstText(node.parts, {"details"})))]

\* extractNameAndDetails of the broad-sweep files: one find over a selector
\* list, the first element in document order wins
extractNameAndDetailsSweep(node) ==
    [name    |-> trim(FirstText(node.parts, {"h2", "h3", "name", "title"})),
     details |-> trim(FirstText(node.parts,
                     {"p", "details", "small", "subtitle", "sub"}))]

\* $(sel).toArray() for a selector list given as a set of tags
RECURSIVE SelectTags(_, _)
SelectTags(doc, tags) ==
    IF doc = <<>> THEN <<>>
    ELSE (IF Head(doc).tag \in tags THEN <<Head(doc)>> ELSE <<>>)
             \o SelectTags(Tail(doc), tags)

\* JavaScript truthiness of a string-or-null value
Truthy(x) == x # Null /\ x # <<>>

\* numChunk || null
OrNull(x) == IF Truthy(x) THEN x ELSE Null

-----------------------------------------------------------------------------
(* Broad sweep, strict file: the kept loop *)

\* new Set(gradeList.map(g => g.grade)).size
DistinctGrades(gradeList) ==
    The({Cardinality({list[i].grade : i \in 1..Len(list)}) :
            list \in {gradeList}})

\* Object.keys(grades).length
KeyCount(grades) == Cardinality(DOMAIN grades)

\* the least number of distinct grades a block must hold
MinDistinctGrades == 3

\* the gate off by one: blocks with one grade label fewer pass
TooFewGradesOffByOne(gradeList) ==
    DistinctGrades(gradeList) < MinDistinctGrades - 1

\* if (distinctGrades < 3) continue;
TooFewGrades(gradeList) == DistinctGrades(gradeList) < MinDistinctGrades

\* one iteration of `for (const el of candidates)`: the records it pushes
StrictKeep(node) ==
    The({
    LET num   == extractCardNumber(raw)
        nd    == extractNameAndDetailsSweep(node)
        name  == IF nd.name = <<>> THEN fallbackNameFromText(raw) ELSE nd.name
        grades == extractGradesMap(raw)
    IN  IF raw = <<>> THEN <<>>
        ELSE IF ~Truthy(num) THEN <<>>
        ELSE IF TooFewGrades(findGrades(raw)) THEN <<>>
        ELSE IF KeyCount(grades) = 0 THEN <<>>
        ELSE <<[name       |-> name,
                details    |-> nd.details,
                cardNumber |-> num,
                totalPop   |-> extractTotalLoose(raw),
                grades     |-> grades,
                len        |-> Len(raw)]>>
    : raw \in {NormalizeText(NodeText(node))}})

\* /(PSA\s*\d)|(\d{1,4}\s*\/\s*\d{1,4})/i.test(text)
LooksLikeCard(text) ==
    \/ \E i \in 1..Len(text) :
           /\ MatchesAtCI(text, i, PSA)
           /\ RunLen(IsDigit, text, SkipWs(text, i + 3)) >= 1
    \/ FractionExec(text, 1).ok

\* Broad sweep, loose file: one iteration of `for (const el of candidates)`
SweepKeep(node) ==
    The({
    LET grades == extractGrades(text)
        num    == extractCardNumber(text)
        nd     == extractNameAndDetailsSweep(node)
    IN  IF ~LooksLikeCard(text) THEN <<>>
        ELSE IF KeyCount(grades) = 0 /\ ~Truthy(num) THEN <<>>
        ELSE <<[name       |-> nd.name,
                details    |-> nd.details,
                cardNumber |-> OrNull(num),
                totalPop   |-> extractTotalLoose(text),
                grades     |-> grades,
                len        |-> Len(text)]>>
    : text \in {NormalizeText(NodeText(node))}})

\* the loop with || for &&: a block must have both a name and details
RowOfRequiresBoth(node) ==
    The({
    LET nd   == extractNameAndDetails(node)
        num  == IF Truthy(extractCardNumber(text)) THEN extractCardNumber(text)
                ELSE extractCardNumber(nd.details)
    IN  IF ~HasTotalMarker(text) THEN <<>>
        ELSE IF nd.name = <<>> \/ nd.details = <<>> THEN <<>>
        ELSE <<[name       |-> nd.name,
                details    |-> nd.details,
                cardNumber |-> OrNull(num),
                totalPop   |-> extractTotal(text),
                grades     |-> extractGrades(text)]>>
    : text \in {NormalizeText(NodeText(node))}})

\* Structural files: one iteration of `for (const el of best)`
RowOf(node) ==
    The({
    LET nd   == extractNameAndDetails(node)
        num  == IF Truthy(extractCardNumber(text)) THEN extractCardNumber(text)
                ELSE extractCardNumber(nd.details)
    IN  IF ~HasTotalMarker(text) THEN <<>>
        ELSE IF nd.name = <<>> /\ nd.details = <<>> THEN <<>>
        ELSE <<[name       |-> nd.name,
                details    |-> nd.details,
                cardNumber |-> OrNull(num),
                totalPop   |-> extractTotal(text),
                grades     |-> extractGrades(text)]>>
    : text \in {NormalizeText(NodeText(node))}})

-----------------------------------------------------------------------------
(* Structural files: the choice of blocks *)

\* class names of the model's documents that contain the substring "card"
CardishClasses == {"card", "card-box", "card-item", "pokecard"}

\* the argument of :contains('Total'), matched case-sensitively
TotalWordExact == <<"T", "o", "t", "a", "l">>

\* does the node match the selector?
MatchesSelector(node, sel) ==
    CASE sel = ".card"              -> "card" \in node.cls
      [] sel = ".card-box"          -> "card-box" \in node.cls
      [] sel = ".card-item"         -> "card-item" \in node.cls
      [] sel = "article"            -> node.tag = "article"
      [] sel = "li.card"            -> node.tag = "li" /\ "card" \in node.cls
      [] sel = "div[class*='card']" ->
             node.tag = "div" /\ node.cls \cap CardishClasses # {}
      [] sel = "div:has(h2):has(:contains('Total'))" ->
             /\ node.tag = "div"
             /\ \E i \in 1..Len(node.parts) : node.parts[i].kind = "h2"
             /\ \E i \in 1..Len(node.parts) :
                    /\ node.parts[i].kind # "text"
                    /\ includes(node.parts[i].text, TotalWordExact)
      [] OTHER                      -> FALSE

CANDIDATE_CARD_SELECTORS ==
    <<".card", ".card-box", ".card-item", "article", "li.card",
      "div[class*='card']">>

\* the list of the first direct-fetch file: one more query, a div holding an
\* h2 and an element whose text contains "Total"
CANDIDATE_CARD_SELECTORS_PLAIN ==
    Append(CANDIDATE_CARD_SELECTORS, "div:has(h2):has(:contains('Total'))")

\* the list of queries of structural file v
SelectorsOf(v) ==
    IF v = "fetchPlain" THEN CANDIDATE_CARD_SELECTORS_PLAIN
    ELSE CANDIDATE_CARD_SELECTORS

\* $(sel).toArray()
RECURSIVE Select(_, _)
Select(doc, sel) ==
    IF doc = <<>> THEN <<>>
    ELSE (IF MatchesSelector(Head(doc), sel) THEN <<Head(doc)>> ELSE <<>>)
             \o Select(Tail(doc), sel)

\* the loop with >= for >: on equal counts the later query wins
RECURSIVE BestLoopLastWins(_, _, _)
BestLoopLastWins(doc, sels, best) ==
    IF sels = <<>> THEN best
    ELSE LET found == Select(doc, Head(sels))
         IN  BestLoopLastWins(doc, Tail(sels),
                              IF Len(found) >= Len(best) THEN found ELSE best)

\* for (const sel of CANDIDATE_CARD_SELECTORS): a longer result replaces best
RECURSIVE BestLoop(_, _, _)
BestLoop(doc, sels, best) ==
    IF sels = <<>> THEN best
    ELSE LET found == Select(doc, Head(sels))
         IN  BestLoop(doc, Tail(sels),
                      IF Len(found) > Len(best) THEN found ELSE best)

TotalPopulationLower ==
    <<"t", "o", "t", "a", "l", " ", "p", "o", "p", "u", "l", "a", "t", "i",
      "o", "n">>

\* the fallback: divs whose text, lowercased, includes "total population"
RECURSIVE FallbackDivs(_)
FallbackDivs(doc) ==
    IF doc = <<>> THEN <<>>
    ELSE (IF /\ Head(doc).tag = "div"
             /\ includes(toLowerCase(NodeText(Head(doc))), TotalPopulationLower)
          THEN <<Head(doc)>> ELSE <<>>) \o FallbackDivs(Tail(doc))

\* the blocks a structural file with the queries sels iterates over
BestBlocks(doc, sels) ==
    The({IF Len(found) = 0 THEN FallbackDivs(doc) ELSE found :
            found \in {BestLoop(doc, sels, <<>>)}})

-----------------------------------------------------------------------------
(* De-duplication (broad sweep files) *)

\* `${(b.name || "").toLowerCase()}|${b.cardNumber || ""}`
SweepKey(b) ==
    toLowerCase(b.name) \o <<"|">>
        \o (IF Truthy(b.cardNumber) THEN b.cardNumber ELSE <<>>)

\* `${(b.name || "").toLowerCase()}|${b.cardNumber}`
StrictKey(b) ==
    toLowerCase(b.name) \o <<"|">>
        \o (IF b.cardNumber = Null THEN <<"n", "u", "l", "l">> ELSE b.cardNumber)

EmptyKey == <<"|">>

\* the loop without the exception for the empty key
RECURSIVE SweepDedupNoException(_, _, _)
SweepDedupNoException(blocks, seen, acc) ==
    IF blocks = <<>> THEN acc
    ELSE IF SweepKey(Head(blocks)) \in seen
         THEN SweepDedupNoException(Tail(blocks), seen, acc)
         ELSE SweepDedupNoException(Tail(blocks),
                  seen \cup {SweepKey(Head(blocks))}, Append(acc, Head(blocks)))

\* loose file: if (seen.has(key) && key !== "|") continue;
RECURSIVE SweepDedupLoop(_, _, _)
SweepDedupLoop(blocks, seen, acc) ==
    IF blocks = <<>> THEN acc
    ELSE LET b   == Head(blocks)
             key == SweepKey(b)
         IN  IF key \in seen /\ key # EmptyKey
             THEN SweepDedupLoop(Tail(blocks), seen, acc)
             ELSE SweepDedupLoop(Tail(blocks), seen \cup {key}, Append(acc, b))

SweepDedup(blocks) == SweepDedupLoop(blocks, {}, <<>>)

\* strict file: if (seen.has(key)) continue;
RECURSIVE StrictDedupLoop(_, _, _)
StrictDedupLoop(blocks, seen, acc) ==
    IF blocks = <<>> THEN acc
    ELSE LET b   == Head(blocks)
             key == StrictKey(b)
         IN  IF key \in seen
             THEN StrictDedupLoop(Tail(blocks), seen, acc)
             ELSE StrictDedupLoop(Tail(blocks), seen \cup {key}, Append(acc, b))

StrictDedup(blocks) == StrictDedupLoop(blocks, {}, <<>>)

-----------------------------------------------------------------------------
(* Filter, sort, limit *)

\* Array.prototype.filter
RECURSIVE Filter(_, _)
Filter(P(_), list) ==
    IF list = <<>> THEN <<>>
    ELSE (IF P(Head(list)) THEN <<Head(list)>> ELSE <<>>) \o Filter(P, Tail(list))

\* the pokemonName filter's predicate, q the lowercased query
NameMatches(r, q) ==
    \/ r.name # <<>> /\ includes(toLowerCase(r.name), q)
    \/ r.details # <<>> /\ includes(toLowerCase(r.details), q)

\* the cardNumber filter's predicate: r.cardNumber &&
\* r.cardNumber.replace(/\s+/g, "") === want
NumberMatches(r, want) ==
    Truthy(r.cardNumber) /\ StripWs(r.cardNumber) = want

\* the strict file's predicate: r.cardNumber === want
NumberMatchesStrict(r, want) == r.cardNumber = want

\* the filters as an if / else if: the number filter is skipped when a name
\* is given
ApplyFiltersElseIf(list, pokemonName, cardNumber, strict) ==
    LET byName(r) == NameMatches(r, toLowerCase(pokemonName))
        byNum(r)  == IF strict THEN NumberMatchesStrict(r, StripWs(cardNumber))
                     ELSE NumberMatches(r, StripWs(cardNumber))
    IN  IF Truthy(pokemonName) THEN Filter(byName, list)
        ELSE IF Truthy(cardNumber) THEN Filter(byNum, list)
        ELSE list

\* the two optional filters, in the order the handler applies them
ApplyFilters(list, pokemonName, cardNumber, strict) ==
    LET byName(r) == NameMatches(r, toLowerCase(pokemonName))
        byNum(r)  == IF strict THEN NumberMatchesStrict(r, StripWs(cardNumber))
                     ELSE NumberMatches(r, StripWs(cardNumber))
        f1 == IF Truthy(pokemonName) THEN Filter(byName, list) ELSE list
    IN  IF Truthy(cardNumber) THEN Filter(byNum, f1) ELSE f1

\* r goes after every element at least as long (the sort is stable)
RECURSIVE InsertByLen(_, _)
InsertByLen(sorted, r) ==
    IF sorted = <<>> THEN <<r>>
    ELSE IF Head(sorted).len >= r.len
         THEN <<Head(sorted)>> \o InsertByLen(Tail(sorted), r)
    ELSE <<r>> \o sorted

RECURSIVE SortLoop(_, _)
SortLoop(list, acc) ==
    IF list = <<>> THEN acc
    ELSE SortLoop(Tail(list), InsertByLen(acc, Head(list)))

\* filtered.sort((a, b) => (b._len || 0) - (a._len || 0))
SortByLenDesc(list) == SortLoop(list, <<>>)

\* the value of a short numeral as an integer
RECURSIVE DigitsValue(_)
DigitsValue(ds) ==
    IF ds = <<>> THEN 0
    ELSE DigitsValue(SubSeq(ds, 1, Len(ds) - 1)) * 10 + DigitVal(ds[Len(ds)])

IsAllDigits(s) == \A i \in 1..Len(s) : IsDigit(s[i])

NaN == [nan |-> TRUE, val |-> 0]

Num(n) == [nan |-> FALSE, val |-> n]

\* Number(limit) for a query string made of digits, signs, whitespace and
\* letters other than those of "Infinity", exponents and radix prefixes:
\* whitespace is trimmed, the empty string is 0, an optionally signed run of
\* digits is its value, anything else is NaN
ToNumber(str) ==
    LET t    == trim(str)
        sign == t # <<>> /\ Head(t) \in {"-", "+"}
        body == IF sign THEN Tail(t) ELSE t
    IN  IF t = <<>> THEN Num(0)
        ELSE IF body = <<>> \/ ~IsAllDigits(body) THEN NaN
        ELSE IF Head(t) = "-" THEN Num(0 - DigitsValue(body))
        ELSE Num(DigitsValue(body))

MinLimit == 1

MaxLimit == 200

\* Math.min(a, b) and Math.max(a, b): NaN if either argument is NaN
MathMin(a, b) == IF a.nan \/ b.nan THEN NaN ELSE Num(Min(a.val, b.val))

MathMax(a, b) == IF a.nan \/ b.nan THEN NaN ELSE Num(Max(a.val, b.val))

\* limit ? Math.max(1, Math.min(200, Number(limit))) : null
\* as [set, nan, val]; set is FALSE for null
ComputeLim(limit) ==
    IF ~Truthy(limit) THEN [set |-> FALSE, nan |-> FALSE, val |-> 0]
    ELSE LET n == MathMax(Num(MinLimit), MathMin(Num(MaxLimit), ToNumber(limit)))
         IN  [set |-> TRUE, nan |-> n.nan, val |-> n.val]

\* JavaScript truthiness of lim: null, NaN and 0 are falsy
LimTruthy(l) == l.set /\ ~l.nan /\ l.val # 0

\* lim ? filtered.slice(0, lim) : filtered
ApplyLimit(list, l) ==
    IF LimTruthy(l) THEN Slice(list, 1, l.val) ELSE list

\* out.map(({ _len, ...rest }) => rest)
StripLen(list) ==
    [i \in 1..Len(list) |->
        [name       |-> list[i].name,
         details    |-> list[i].details,
         cardNumber |-> list[i].cardNumber,
         totalPop   |-> list[i].totalPop,
         grades     |-> list[i].grades]]

-----------------------------------------------------------------------------
(* The documents and requests the handlers are run on *)

TxtPika == <<"P", "i", "k", "a">>

TxtPikaUpper == <<"P", "I", "K", "A">>

TxtPikablu == <<"P", "i", "k", "a", "b", "l", "u">>

TxtHolo == <<"H", "o", "l", "o">>

\* "4/102 PSA 10 5 PSA9 3 PSA 8 2 Total Population 10"
TxtThreeGrades ==
    <<"4", "/", "1", "0", "2", " ", "P", "S", "A", " ", "1", "0", " ", "5",
      " ", "P", "S", "A", "9", " ", "3", " ", "P", "S", "A", " ", "8", " ",
      "2", " ", "T", "o", "t", "a", "l", " ", "P", "o", "p", "u", "l", "a",
      "t", "i", "o", "n", " ", "1", "0">>

\* "4 / 102  PSA 10 5 PSA 9 3 PSA 8 2 PSA 10 7"
TxtThreeGradesWide ==
    <<"4", " ", "/", " ", "1", "0", "2", " ", " ", "P", "S", "A", " ", "1",
      "0", " ", "5", " ", "P", "S", "A", " ", "9", " ", "3", " ", "P", "S",
      "A", " ", "8", " ", "2", " ", "P", "S", "A", " ", "1", "0", " ", "7">>

\* "5/102 PSA 10 1 PSA 9 2 Total Population 3"
TxtTwoGrades ==
    <<"5", "/", "1", "0", "2", " ", "P", "S", "A", " ", "1", "0", " ", "1",
      " ", "P", "S", "A", " ", "9", " ", "2", " ", "T", "o", "t", "a", "l",
      " ", "P", "o", "p", "u", "l", "a", "t", "i", "o", "n", " ", "3">>

\* "PSA 10 5 PSA 9 3 PSA 8 2"
TxtNoNumber ==
    <<"P", "S", "A", " ", "1", "0", " ", "5", " ", "P", "S", "A", " ", "9",
      " ", "3", " ", "P", "S", "A", " ", "8", " ", "2">>

\* "Pik 7/102 PSA 1 , PSA 2 , PSA 3 5"
TxtNullValues ==
    <<"P", "i", "k", " ", "7", "/", "1", "0", "2", " ", "P", "S", "A", " ",
      "1", " ", ",", " ", "P", "S", "A", " ", "2", " ", ",", " ", "P", "S",
      "A", " ", "3", " ", "5">>

\* "Total Population 9"
TxtTotalOnly ==
    <<"T", "o", "t", "a", "l", " ", "P", "o", "p", "u", "l", "a", "t", "i",
      "o", "n", " ", "9">>

Part(kind, text) == [kind |-> kind, text |-> text]

\* a card box with a heading: <div class="card"><h2>Pika</h2> ...</div>
NodeCard ==
    [tag |-> "div", cls |-> {"card"},
     parts |-> <<Part("h2", TxtPika), Part("text", <<" ">> \o TxtThreeGrades)>>]

\* the wrapper around the same card, upper-case name, more text
NodeWrapper ==
    [tag |-> "div", cls |-> {},
     parts |-> <<Part("h3", <<" ">> \o TxtPikaUpper \o <<"\n">>),
                 Part("p", TxtHolo),
                 Part("text", <<"\n", " ">> \o TxtThreeGradesWide)>>]

\* a card with a fraction and two grades only
NodeTwoGrades ==
    [tag |-> "article", cls |-> {"card-item"},
     parts |-> <<Part("name", TxtPikablu), Part("text", <<" ">> \o TxtTwoGrades)>>]

\* grades without a name or a card number
NodeNoNumber ==
    [tag |-> "section", cls |-> {},
     parts |-> <<Part("text", TxtNoNumber)>>]

\* three grade labels, two of them with an unparseable value; no name element
NodeNullValues ==
    [tag |-> "li", cls |-> {"card"},
     parts |-> <<Part("text", TxtNullValues)>>]

\* a total without a name: page furniture
NodeTotalOnly ==
    [tag |-> "div", cls |-> {"pokecard"},
     parts |-> <<Part("small", TxtHolo), Part("text", <<" ">> \o TxtTotalOnly)>>]

\* "Holo Total Population 9"
TxtHoloTotal == TxtHolo \o <<" ">> \o TxtTotalOnly

\* a block whose heading is blank and whose paragraph holds everything:
\* <div><h2> </h2><p>Holo Total Population 9</p></div>
NodeBlankHeading ==
    [tag |-> "div", cls |-> {},
     parts |-> <<Part("h2", <<" ">>), Part("p", TxtHoloTotal)>>]

Nodes == {NodeCard, NodeWrapper, NodeTwoGrades, NodeNoNumber, NodeNullValues,
          NodeTotalOnly, NodeBlankHeading}

\* the most nodes a document holds
MaxNodes == 2

\* all sequences over S of length at most n
SeqsUpTo(S, n) == UNION {[1..k -> S] : k \in 0..n}

Docs == SeqsUpTo(Nodes, MaxNodes)

Variants == {"fetch", "fetchPlain", "headless", "sweep", "strict"}

\* the files that fetch the page themselves
Direct == {"fetch", "fetchPlain"}

Headless == {"headless", "sweep", "strict"}

Slugs == {Null, <<>>, <<"b", "a", "s", "e">>}

NameQueries == {Null, <<"p", "I", "k">>}

NumberQueries == {Null, <<"4", " ", "/", "1", "0", "2">>}

Limits == {Null, <<"0">>, <<"1">>, <<"5", "0", "0">>, <<"z">>}

Requests ==
    [setSlug : Slugs, pokemonName : NameQueries, cardNumber : NumberQueries,
     limit : Limits]

NoLim == [set |-> FALSE, nan |-> FALSE, val |-> 0]

-----------------------------------------------------------------------------
(* The synchronous part of each handler, from the document to the list     *)
(* that is returned                                                        *)

SweepTags == {"section", "article", "div"}

StrictTags == {"article", "section", "li", "div"}

\* the elements the block loop iterates over
CandidateNodes(v, doc) ==
    CASE v = "strict" -> SelectTags(doc, StrictTags)
      [] v = "sweep"  -> SelectTags(doc, SweepTags)
      [] OTHER        -> BestBlocks(doc, SelectorsOf(v))

\* one iteration of the block loop of file v on a node
KeepOne(v, node) ==
    CASE v = "strict" -> StrictKeep(node)
      [] v = "sweep"  -> SweepKeep(node)
      [] OTHER        -> RowOf(node)

\* KeepOne, computed once for every node of the model's documents
KeepTable == [v \in Variants |-> [n \in Nodes |-> KeepOne(v, n)]]

\* the records the block loop pushes while it iterates over nodes
RECURSIVE CollectBlocks(_, _)
CollectBlocks(v, nodes) ==
    IF nodes = <<>> THEN <<>>
    ELSE KeepTable[v][Head(nodes)] \o CollectBlocks(v, Tail(nodes))

\* the de-duplication pass of the broad-sweep files; the structural files
\* have none
Dedup(v, blocks) ==
    CASE v = "strict" -> StrictDedup(blocks)
      [] v = "sweep"  -> SweepDedup(blocks)
      [] OTHER        -> blocks

\* the sort of the broad-sweep files; the structural files keep document order
Rank(v, list) ==
    IF v \in {"strict", "sweep"} THEN SortByLenDesc(list) ELSE list

-----------------------------------------------------------------------------
(* The handler *)

\* export const config = { maxDuration: 25 }, in milliseconds
MaxDurationMs == 25000

\* page.goto(url, { timeout })
GotoTimeout(v) == IF v = "strict" THEN 25000 ELSE 20000

\* await sleep(ms) / page.waitForTimeout(ms) after the navigation
SettleMs(v) == IF v = "strict" THEN 1400 ELSE 1200

\* the extra wait when the title is that of an interstitial
InterstitialMs(v) == IF v = "strict" THEN 4500 ELSE 4000

\* page.waitForFunction(..., { timeout: 15000 })
WaitForTimeoutMs == 15000

\* res.status(400).json({ error })
BadRequest ==
    [status |-> 400, keys |-> {"error"}, hasCards |-> FALSE, cards |-> <<>>]

\* res.status(r.status).json({ error, url, hint, sample }); the first
\* direct-fetch file sends { error, url } only
UpstreamFailure(v, status) ==
    [status |-> status,
     keys |-> IF v = "fetch" THEN {"error", "url", "hint", "sample"}
              ELSE {"error", "url"},
     hasCards |-> FALSE, cards |-> <<>>]

\* the body of the catch block's answer: the headless files add a hint
ErrorKeys(v) == IF v \in {"headless", "sweep", "strict"} THEN {"error", "hint"}
                ELSE {"error"}

\* a test that takes only an absent slug for a missing one
SlugMissingAbsentOnly(setSlug) == setSlug = Null

\* if (!setSlug): absent (undefined) or the empty string
SlugMissing(setSlug) == ~Truthy(setSlug)

\* a catch block that sends what the block loop had pushed so far
ErrorResponseWithPartial(v, partial) ==
    [status |-> 500, keys |-> ErrorKeys(v) \cup {"cards"}, hasCards |-> TRUE,
     cards |-> partial]

\* res.status(500).json({ error: String(err) }): partial is what the block
\* loop had pushed when the exception was thrown
ErrorResponse(v, partial) ==
    [status |-> 500, keys |-> ErrorKeys(v), hasCards |-> FALSE, cards |-> <<>>]

\* res.status(200).json({ ok: true, ..., cards })
OkResponse(v, list) ==
    [status |-> 200,
     keys |-> {"ok", "source", "totalFound", "returned", "filteredBy", "cards"}
                \cup (IF v \in {"sweep", "strict"} THEN {} ELSE {"selectorUsed"}),
     hasCards |-> TRUE,
     cards |-> IF v \in {"sweep", "strict"} THEN StripLen(list) ELSE list]

\* a catch block that returns past the clean-up
AfterCatchSkipsFinally(v) == "done"

\* where control goes once the catch block has responded: the finally block
\* of the headless files, the end of the handler of the direct fetch
AfterCatch(v) == IF v \in Headless THEN "finally" ELSE "done"

\* if (browser) { try { await browser.close(); } catch {} }
CloseIfOpen(b) == IF b = "open" THEN "closed" ELSE b

\* the await points before the navigation, in order
NextSetup(p) ==
    CASE p = "newPage"    -> "setUserAgent"
      [] p = "setUserAgent" -> "setHeaders"
      [] p = "setHeaders" -> "goto"

SetupSteps == {"newPage", "setUserAgent", "setHeaders"}

\* the step after the interstitial check
AfterTitle(v) == IF v = "headless" THEN "content" ELSE "waitFor"

Init ==
    /\ variant \in Variants
    /\ req \in Requests
    /\ pc = "start"
    /\ upstream = 0
    /\ dom = <<>>
    /\ chosen = <<>>
    /\ browser = "none"
    /\ elapsed = 0
    /\ threw = FALSE
    /\ kept = <<>> /\ rows = <<>> /\ filtered = <<>> /\ ranked = <<>>
    /\ lim = NoLim
    /\ out = <<>>
    /\ res = <<>>
    /\ fn = "none" /\ input = <<>> /\ result = <<>>

\* the catch block: respond 500, then the finally block if there is one
Catch(partial) ==
    /\ threw' = TRUE
    /\ res' = Append(res, ErrorResponse(variant, partial))
    /\ pc' = AfterCatch(variant)

\* an answer without its return: control goes on into the try block
AfterEarlyReturnFallsThrough(v) == IF v \in Direct THEN "fetch" ELSE "launch"

\* `return res.status(400).json(...)` before the try block ends the handler
AfterEarlyReturn(v) == "done"

\* if (!setSlug) return res.status(400)...; otherwise enter the try block
Start ==
    /\ pc = "start"
    /\ IF SlugMissing(req.setSlug)
       THEN /\ res' = Append(res, BadRequest)
            /\ pc' = AfterEarlyReturn(variant)
       ELSE /\ res' = res
            /\ pc' = IF variant \in Direct THEN "fetch" ELSE "launch"
    /\ UNCHANGED <<variant, req, upstream, dom, browser, elapsed, threw>>
    /\ UNCHANGED stageVars /\ UNCHANGED harnessVars

\* r.ok: the status is in the range 200-299
Ok(status) == status >= 200 /\ status <= 299

\* the statuses the source site answers with
Statuses == {200, 403, 404}

\* a branch without its return: control falls through to the parsing
AfterNotOkFallsThrough(v) == "text"

\* where control goes after `return res.status(r.status).json(...)`
AfterNotOk(v) == "done"

\* const r = await fetch(url, ...) resolves with a status.  If (!r.ok) the
\* current file awaits the body first; the first file answers at once.
FetchResolves ==
    /\ pc = "fetch"
    /\ \E st \in Statuses :
        /\ upstream' = st
        /\ IF Ok(st) THEN pc' = "text" /\ res' = res
           ELSE IF variant = "fetch" THEN pc' = "errorBody" /\ res' = res
           ELSE /\ res' = Append(res, UpstreamFailure(variant, st))
                /\ pc' = AfterNotOk(variant)
    /\ UNCHANGED <<variant, req, dom, browser, elapsed, threw>>
    /\ UNCHANGED stageVars /\ UNCHANGED harnessVars

\* if (!r.ok): const body = await r.text().catch(() => ""); respond r.status
FetchNotOk ==
    /\ pc = "errorBody"
    /\ res' = Append(res, UpstreamFailure(variant, upstream))
    /\ pc' = AfterNotOk(variant)
    /\ UNCHANGED <<variant, req, upstream, dom, browser, elapsed, threw>>
    /\ UNCHANGED stageVars /\ UNCHANGED harnessVars

\* browser = await puppeteer.launch(...)
Launch ==
    /\ pc = "launch"
    /\ browser' = "open"
    /\ pc' = "newPage"
    /\ UNCHANGED <<variant, req, upstream, dom, elapsed, threw, res>>
    /\ UNCHANGED stageVars /\ UNCHANGED harnessVars

\* browser.newPage(), page.setUserAgent(), page.setExtraHTTPHeaders()
Setup ==
    /\ pc \in SetupSteps
    /\ pc' = NextSetup(pc)
    /\ UNCHANGED <<variant, req, upstream, dom, browser, elapsed, threw, res>>
    /\ UNCHANGED stageVars /\ UNCHANGED harnessVars

\* await page.goto(url, { timeout }) resolves before the timeout
Goto ==
    /\ pc = "goto"
    /\ \E d \in {0, GotoTimeout(variant) - 1} : elapsed' = elapsed + d
    /\ pc' = "settle"
    /\ UNCHANGED <<variant, req, upstream, dom, browser, threw, res>>
    /\ UNCHANGED stageVars /\ UNCHANGED harnessVars

\* page.goto rejects with a TimeoutError once the timeout has passed
GotoTimesOut ==
    /\ pc = "goto"
    /\ elapsed' = elapsed + GotoTimeout(variant)
    /\ Catch(<<>>)
    /\ UNCHANGED <<variant, req, upstream, dom, browser>>
    /\ UNCHANGED stageVars /\ UNCHANGED harnessVars

\* await sleep(1200) / await page.waitForTimeout(1200)
Settle ==
    /\ pc = "settle"
    /\ elapsed' = elapsed + SettleMs(variant)
    /\ pc' = "title"
    /\ UNCHANGED <<variant, req, upstream, dom, browser, threw, res>>
    /\ UNCHANGED stageVars /\ UNCHANGED harnessVars

\* const t1 = await page.title(); if (/just a moment/i.test(t1)) wait again.
\* In the sweep files a rejection of page.title() is swallowed.
Title ==
    /\ pc = "title"
    /\ \E interstitial \in BOOLEAN :
        pc' = IF interstitial THEN "interstitial" ELSE AfterTitle(variant)
    /\ UNCHANGED <<variant, req, upstream, dom, browser, elapsed, threw, res>>
    /\ UNCHANGED stageVars /\ UNCHANGED harnessVars

\* await sleep(4000) / await page.waitForTimeout(4000)
Interstitial ==
    /\ pc = "interstitial"
    /\ elapsed' = elapsed + InterstitialMs(variant)
    /\ pc' = AfterTitle(variant)
    /\ UNCHANGED <<variant, req, upstream, dom, browser, threw, res>>
    /\ UNCHANGED stageVars /\ UNCHANGED harnessVars

\* try { await page.waitForFunction(..., { timeout: 15000 }) } catch {}:
\* the hint shows at once, or the wait times out and the error is swallowed
WaitFor ==
    /\ pc = "waitFor"
    /\ \E d \in {0, WaitForTimeoutMs} : elapsed' = elapsed + d
    /\ pc' = "content"
    /\ UNCHANGED <<variant, req, upstream, dom, browser, threw, res>>
    /\ UNCHANGED stageVars /\ UNCHANGED harnessVars

\* where control goes after `return res.status(200).json(...)` in the try block
AfterReturn(v) == IF v \in Headless THEN "finally" ELSE "done"

\* the await points whose promise can reject into the handler's catch block
ThrowPoints(v) ==
    CASE v \in Direct   -> {"fetch", "text"}
      [] v = "headless" -> {"launch", "newPage", "setUserAgent", "setHeaders",
                            "goto", "settle", "title", "interstitial", "content"}
      [] OTHER          -> {"launch", "newPage", "setUserAgent", "setHeaders",
                            "goto", "content"}

\* an awaited call rejects (network error, launch failure, closed page, ...)
Throws ==
    /\ pc \in ThrowPoints(variant)
    /\ Catch(<<>>)
    /\ UNCHANGED <<variant, req, upstream, dom, browser, elapsed>>
    /\ UNCHANGED stageVars /\ UNCHANGED harnessVars

\* const html = await r.text() / await page.content(); then, without another
\* await, cheerio.load, the block loop, de-duplication, filters, sort, limit
\* and res.status(200).json(...)
Extract ==
    /\ pc \in {"text", "content"}
    /\ \E d \in Docs :
        \E cands \in {CandidateNodes(variant, d)} :
        \E blocks \in {CollectBlocks(variant, cands)} :
        \E dedup \in {Dedup(variant, blocks)} :
        \E flt \in {ApplyFilters(dedup, req.pokemonName, req.cardNumber,
                                 variant = "strict")} :
        \E srt \in {Rank(variant, flt)} :
        \E l \in {ComputeLim(req.limit)} :
        \E o \in {ApplyLimit(srt, l)} :
            /\ dom' = d
            /\ chosen' = cands
            /\ kept' = blocks
            /\ rows' = dedup
            /\ filtered' = flt
            /\ ranked' = srt
            /\ lim' = l
            /\ out' = o
            /\ res' = Append(res, OkResponse(variant, o))
    /\ pc' = AfterReturn(variant)
    /\ UNCHANGED <<variant, req, upstream, browser, elapsed, threw>>
    /\ UNCHANGED harnessVars

\* the same synchronous stretch, but something throws after the block loop
\* has visited k candidates
ExtractThrows ==
    /\ pc \in {"text", "content"}
    /\ \E d \in Docs :
        \E cands \in {CandidateNodes(variant, d)} :
        \E k \in 0..Len(cands) :
        \E partial \in {CollectBlocks(variant, Slice(cands, 1, k))} :
                /\ dom' = d
                /\ chosen' = cands
                /\ kept' = partial
                /\ Catch(partial)
    /\ UNCHANGED <<variant, req, upstream, browser, elapsed>>
    /\ UNCHANGED <<rows, filtered, ranked, lim, out>>
    /\ UNCHANGED harnessVars

\* finally { if (browser) { try { await browser.close(); } catch {} } }
Close ==
    /\ pc = "finally"
    /\ browser' = CloseIfOpen(browser)
    /\ pc' = "done"
    /\ UNCHANGED <<variant, req, upstream, dom, elapsed, threw, res>>
    /\ UNCHANGED stageVars /\ UNCHANGED harnessVars

Next ==
    \/ Start
    \/ FetchResolves
    \/ FetchNotOk
    \/ Launch
    \/ Setup
    \/ Goto
    \/ GotoTimesOut
    \/ Settle
    \/ Title
    \/ Interstitial
    \/ WaitFor
    \/ Throws
    \/ Extract
    \/ ExtractThrows
    \/ Close

Spec == Init /\ [][Next]_vars

-----------------------------------------------------------------------------
(* The field extractors on their own: each is called once on a text        *)

\* "PSA 10 5 "
SegGrade == <<"P", "S", "A", " ", "1", "0", " ", "5", " ">>

\* "psa9 1,234 "
SegGradeComma ==
    <<"p", "s", "a", "9", " ", "1", ",", "2", "3", "4", " ">>

\* "PSA 10 7 "
SegGradeAgain == <<"P", "S", "A", " ", "1", "0", " ", "7", " ">>

\* "PSA 10 , "
SegGradeNoValue == <<"P", "S", "A", " ", "1", "0", " ", ",", " ">>

\* "4/102"
SegFraction == <<"4", "/", "1", "0", "2">>

\* "12 / 7"
SegFractionWide == <<"1", "2", " ", "/", " ", "7">>

\* "12345/6"
SegFractionLong == <<"1", "2", "3", "4", "5", "/", "6">>

\* "900719925474099": with one more digit, the integers around 2^53
TxtBig == <<"9", "0", "0", "7", "1", "9", "9", "2", "5", "4", "7", "4", "0",
            "9", "9">>

Segs == {SegGrade, SegGradeComma, SegGradeAgain, SegGradeNoValue, SegFraction,
         SegFractionWide, SegFractionLong,
         <<"0">>, <<"2">>, <<"3">>, <<",">>, <<" ">>, <<"a">>}

\* the most segments a text is made of
MaxSegs == 2

RECURSIVE Concat(_)
Concat(ss) == IF ss = <<>> THEN <<>> ELSE Head(ss) \o Concat(Tail(ss))

Texts == {Concat(ss) : ss \in SeqsUpTo(Segs, MaxSegs)}

TailChars == {"0", "2", "3", ",", "a"}

\* the most characters that follow TxtBig in a long numeral
MaxTail == 2

Numerals == {TxtBig \o t : t \in SeqsUpTo(TailChars, MaxTail)}

handlerVars ==
    <<variant, pc, req, upstream, dom, chosen, browser, elapsed, threw, kept,
      rows, filtered, ranked, lim, out, res>>

InitExtract ==
    /\ variant = "fetch"
    /\ req = [setSlug |-> Null, pokemonName |-> Null, cardNumber |-> Null,
              limit |-> Null]
    /\ pc = "idle"
    /\ upstream = 0
    /\ dom = <<>>
    /\ chosen = <<>>
    /\ browser = "none"
    /\ elapsed = 0
    /\ threw = FALSE
    /\ kept = <<>> /\ rows = <<>> /\ filtered = <<>> /\ ranked = <<>>
    /\ lim = NoLim
    /\ out = <<>>
    /\ res = <<>>
    /\ fn = "none"
    /\ input \in Texts \cup Numerals
    /\ result = <<>>

\* cleanNum(input)
CallCleanNum ==
    /\ fn = "none"
    /\ fn' = "cleanNum"
    /\ result' = cleanNum(input)
    /\ UNCHANGED input /\ UNCHANGED handlerVars

\* extractGrades(input), the direct-fetch and loose sweep files
CallExtractGrades ==
    /\ fn = "none"
    /\ fn' = "extractGrades"
    /\ result' = extractGrades(input)
    /\ UNCHANGED input /\ UNCHANGED handlerVars

\* extractGradesMap(input), the strict sweep file
CallExtractGradesMap ==
    /\ fn = "none"
    /\ fn' = "extractGradesMap"
    /\ result' = extractGradesMap(input)
    /\ UNCHANGED input /\ UNCHANGED handlerVars

\* extractCardNumber(input)
CallExtractCardNumber ==
    /\ fn = "none"
    /\ fn' = "extractCardNumber"
    /\ result' = extractCardNumber(input)
    /\ UNCHANGED input /\ UNCHANGED handlerVars

\* extractCardNumber applied to its own non-null result
CallExtractCardNumberAgain ==
    /\ fn = "extractCardNumber"
    /\ result # Null
    /\ fn' = "extractCardNumberAgain"
    /\ input' = result
    /\ result' = extractCardNumber(result)
    /\ UNCHANGED handlerVars

NextExtract ==
    \/ CallCleanNum
    \/ CallExtractGrades
    \/ CallExtractGradesMap
    \/ CallExtractCardNumber
    \/ CallExtractCardNumberAgain

SpecExtract == InitExtract /\ [][NextExtract]_vars

-----------------------------------------------------------------------------
(* Properties of the field extractors, under SpecExtract *)

\* the occurrences of "PSA g v" in the text whose value parses
Parseable(occ) == {i \in 1..Len(occ) : occ[i].value # Null}

\* C5, as amended: the mapping grade extractor returns exactly one entry
\* "PSA g" per distinct grade g that occurs with a parseable value, stores no
\* null, and when a grade occurs more than once it stores the value of the
\* LAST occurrence whose value parses.
C5_LastOccurrenceWins ==
    fn \in {"extractGrades", "extractGradesMap"} =>
        \A occ \in {findGrades(input)} :
            /\ DOMAIN result = {GradeKey(occ[i].grade) : i \in Parseable(occ)}
            /\ \A k \in DOMAIN result : result[k] # Null
            /\ \A i \in Parseable(occ) :
                   (\A j \in Parseable(occ) :
                        j > i => occ[j].grade # occ[i].grade)
                       => result[GradeKey(occ[i].grade)] = occ[i].value

\* C5 witness: a grade occurs twice with different parseable values and the
\* mapping holds the later one
C5_Witness ==
    /\ fn = "extractGradesMap"
    /\ \E occ \in {findGrades(input)} :
           /\ Len(occ) = 2
           /\ Parseable(occ) = {1, 2}
           /\ occ[1].grade = occ[2].grade
           /\ occ[1].value # occ[2].value
           /\ result[GradeKey(occ[1].grade)] = occ[2].value

\* C5 as stated: one entry per distinct grade with a parseable value, no
\* null stored, and a repeated grade keeps the value of its FIRST occurrence
C5_FirstOccurrenceWins ==
    fn \in {"extractGrades", "extractGradesMap"} =>
        \A occ \in {findGrades(input)} :
            /\ DOMAIN result = {GradeKey(occ[i].grade) : i \in Parseable(occ)}
            /\ \A k \in DOMAIN result : result[k] # Null
            /\ \A i \in Parseable(occ) :
                   (\A j \in Parseable(occ) :
                        j < i => occ[j].grade # occ[i].grade)
                       => result[GradeKey(occ[i].grade)] = occ[i].value

\* t is digits{1,4} whitespace* "/" whitespace* digits{1,4}
IsFractionToken(t) ==
    \E k1 \in 1..4, k2 \in 1..4 :
        /\ k1 + 1 + k2 <= Len(t)
        /\ \A i \in 1..Len(t) :
               IF i <= k1 THEN IsDigit(t[i])
               ELSE IF i > Len(t) - k2 THEN IsDigit(t[i])
               ELSE IsSpace(t[i]) \/ t[i] = "/"
        /\ Cardinality({i \in 1..Len(t) : t[i] = "/"}) = 1

\* t is digits "/" digits
IsPlainFraction(t) ==
    \E k \in 2..(Len(t) - 1) :
        /\ t[k] = "/"
        /\ \A i \in (1..Len(t)) \ {k} : IsDigit(t[i])

\* the positions <<a, b>> of the fraction-shaped tokens of s
TokenSpans(s) ==
    {ab \in (1..Len(s)) \X (1..Len(s)) :
        /\ ab[1] < ab[2]
        /\ IsDigit(s[ab[1]]) /\ IsDigit(s[ab[2]])
        /\ IsFractionToken(SubSeq(s, ab[1], ab[2]))}

\* C6: card-number extraction returns null iff the text has no
\* fraction-shaped token; otherwise it returns a token that starts at the
\* leftmost position where one starts, with its whitespace removed, which has
\* the form digits "/" digits; applied to its own result it returns that
\* result.
C6_CardNumber ==
    /\ fn = "extractCardNumber" =>
           \A spans \in {TokenSpans(input)} :
               /\ result = Null <=> spans = {}
               /\ result # Null =>
                      /\ IsPlainFraction(result)
                      /\ \E ab \in spans :
                             /\ \A cd \in spans : ab[1] <= cd[1]
                             /\ \A cd \in spans :
                                    cd[1] = ab[1] => cd[2] <= ab[2]
                             /\ result = SelectSeq(SubSeq(input, ab[1], ab[2]),
                                                   LAMBDA c : ~IsSpace(c))
    /\ fn = "extractCardNumberAgain" => result = input

\* C6 witness: a token with whitespace around the slash was extracted, and
\* extracting again from the result changed nothing
C6_Witness ==
    /\ fn = "extractCardNumberAgain"
    /\ result = <<"1", "2", "/", "7">>
    /\ result = input

\* the digit characters of the input, in order, as a numeral
DigitsOf(s) == SelectSeq(s, IsDigit)

\* C7, as amended: for every input string whose digit characters form an
\* integer of at most 2^53, cleanNum returns that integer; it returns null
\* when the input is empty or has no digit.
C7_ExactUpTo2Pow53 ==
    fn = "cleanNum" =>
        \A ds \in {DigitsOf(input)} :
            IF ds = <<>> THEN result = Null
            ELSE ~NumLess(TwoPow53, StripZeros(ds)) => result = StripZeros(ds)

\* C7 witness: separators were removed and the integer 2^53 itself came back
C7_Witness ==
    /\ fn = "cleanNum"
    /\ \E i \in 1..Len(input) : input[i] = ","
    /\ result = TwoPow53

\* C7 as stated: for every input string, cleanNum returns the integer formed
\* by the input's digit characters, and null when there is no digit
C7_ExactForEveryInput ==
    fn = "cleanNum" =>
        \A ds \in {DigitsOf(input)} :
            IF ds = <<>> THEN result = Null ELSE result = StripZeros(ds)

-----------------------------------------------------------------------------
(* Properties of the handlers, under Spec *)

\* the handler has answered 200 with a cards list
Responded200 == res # <<>> /\ res[Len(res)].status = 200

\* the elements of list at the positions in I, in order
Pick(list, I) ==
    LET F[n \in 0..Len(list)] ==
            IF n = 0 THEN <<>>
            ELSE IF n \in I THEN Append(F[n - 1], list[n]) ELSE F[n - 1]
    IN  F[Len(list)]

\* s in lower case
Lower(s) == [i \in 1..Len(s) |-> LowerChar(s[i])]

\* the identity of a record: lowercased name and card number, either may be
\* empty
IdentityKey(r) ==
    <<Lower(r.name), IF r.cardNumber = Null THEN <<>> ELSE r.cardNumber>>

\* C1: in the broad-sweep variants the de-duplicated list is the list of
\* accepted blocks with, for every identity key, only the first block with
\* that key, in selection order; blocks whose key has both components empty
\* are all kept. No two records of the result share a non-empty key.
C1_DedupKeepsFirst ==
    (variant \in {"sweep", "strict"} /\ Responded200) =>
        /\ rows = Pick(kept,
                       {i \in 1..Len(kept) :
                           \/ IdentityKey(kept[i]) = <<<<>>, <<>>>>
                           \/ \A j \in 1..(i - 1) :
                                  IdentityKey(kept[j]) # IdentityKey(kept[i])})
        /\ \A i, j \in 1..Len(rows) :
               (i < j /\ IdentityKey(rows[i]) = IdentityKey(rows[j]))
                   => IdentityKey(rows[i]) = <<<<>>, <<>>>>

\* C1 witness: the loose sweep dropped a repeated block
C1_Witness ==
    /\ variant = "sweep"
    /\ Responded200
    /\ Len(kept) = 2
    /\ IdentityKey(kept[1]) = IdentityKey(kept[2])
    /\ rows = <<kept[1]>>

\* the normalized text of a block
BlockText(node) == NormalizeText(NodeText(node))

\* the distinct PSA grade labels in a text
GradeLabels(text) ==
    {findGrades(text)[i].grade : i \in 1..Len(findGrades(text))}

\* some occurrence of a grade in the text has a value that parses
HasParseableGrade(text) == Parseable(findGrades(text)) # {}

\* what the gate looks at, for every block of the model's documents
GateFacts ==
    [n \in Nodes |->
        [fraction  |-> TokenSpans(BlockText(n)) # {},
         labels    |-> Cardinality(GradeLabels(BlockText(n))),
         parseable |-> HasParseableGrade(BlockText(n)),
         len       |-> Len(BlockText(n)),
         grades    |-> extractGradesMap(BlockText(n))]]

\* C2: in the strict broad-sweep variant the records are those of exactly
\* the candidate blocks, in order, whose normalized text has a card-number
\* fraction AND at least 3 distinct PSA grade labels (and a grade that
\* parses); a block with a fraction and fewer than 3 distinct grades, or with
\* 3 distinct grades and no fraction, yields no record.
C2_StrictGate ==
    (variant = "strict" /\ Responded200) =>
        \A passing \in
               {SelectSeq(dom, LAMBDA n :
                    /\ n.tag \in {"article", "section", "li", "div"}
                    /\ GateFacts[n].fraction
                    /\ GateFacts[n].labels >= 3
                    /\ GateFacts[n].parseable)} :
            /\ Len(kept) = Len(passing)
            /\ \A i \in 1..Len(kept) :
                   /\ kept[i].len = GateFacts[passing[i]].len
                   /\ IsPlainFraction(kept[i].cardNumber)
                   /\ kept[i].grades = GateFacts[passing[i]].grades

\* C2 witness: a block with a fraction and two distinct grades was discarded
\* next to one that was accepted
C2_Witness ==
    /\ variant = "strict"
    /\ Responded200
    /\ Len(kept) = 1
    /\ \E i \in 1..Len(dom) :
           GateFacts[dom[i]].fraction /\ GateFacts[dom[i]].labels = 2

\* s contains q as a substring
Contains(s, q) ==
    \E i \in 0..(Len(s) - Len(q)) : \A k \in 1..Len(q) : s[i + k] = q[k]

\* s without its whitespace
NoSpace(s) == SelectSeq(s, LAMBDA c : ~IsSpace(c))

\* a query parameter was given
Given(q) == q # Null /\ q # <<>>

NameOk(r) ==
    \/ Contains(Lower(r.name), Lower(req.pokemonName))
    \/ Contains(Lower(r.details), Lower(req.pokemonName))

NumberOk(r) ==
    r.cardNumber # Null /\ NoSpace(r.cardNumber) = NoSpace(req.cardNumber)

\* C3: the filtered list is exactly the sub-list, in the original order, of
\* the records that satisfy every given filter: the name filter keeps a
\* record iff the lowercased query is a substring of its lowercased name or
\* details, the number filter iff its card number without whitespace equals
\* the query without whitespace; with no filter the list is unchanged.
C3_FilterExact ==
    Responded200 =>
        filtered = SelectSeq(rows, LAMBDA r :
                       /\ Given(req.pokemonName) => NameOk(r)
                       /\ Given(req.cardNumber) => NumberOk(r))

\* C3 witness: both filters were given and a record that passes the name
\* filter alone was dropped while another passed both
C3_Witness ==
    /\ Responded200
    /\ Given(req.pokemonName) /\ Given(req.cardNumber)
    /\ Len(rows) = 2
    /\ Len(filtered) = 1
    /\ \E i \in 1..Len(rows) : NameOk(rows[i]) /\ ~NumberOk(rows[i])

\* C4 as stated: whenever a limit is present it is clamped to [1, 200] and
\* the returned list is the prefix of the filtered (ranked) list of that
\* length
C4_LimitClamped ==
    (Responded200 /\ Given(req.limit)) =>
        /\ lim.set /\ ~lim.nan
        /\ lim.val \in 1..200
        /\ Len(out) = Min(lim.val, Len(ranked))
        /\ \A i \in 1..Len(out) : out[i] = ranked[i]

\* C8: in the headless variants no handler that has finished leaves a
\* launched browser open
C8_BrowserClosed ==
    (variant \in {"headless", "sweep", "strict"} /\ pc = "done")
        => browser # "open"

\* C8 witness: a handler that launched the browser and then failed has
\* finished with the browser closed
C8_Witness ==
    /\ variant \in {"headless", "sweep", "strict"}
    /\ pc = "done"
    /\ threw
    /\ browser = "closed"

\* C9 as stated: the waiting of a headless handler never goes past the
\* budget of maxDuration unless the handler has failed with an error
C9_BudgetBoundsWaiting ==
    (variant \in {"headless", "sweep", "strict"} /\ elapsed > MaxDurationMs)
        => (threw /\ res # <<>> /\ res[Len(res)].status = 500)

\* C10: a handler in which something threw has answered 500 without a cards
\* list; a cards list is only ever in a 200 answer of a handler in which
\* nothing threw and whose block loop went over every candidate
C10_NoPartialCommit ==
    /\ threw =>
           /\ Len(res) = 1
           /\ res[1].status = 500
           /\ ~res[1].hasCards /\ res[1].cards = <<>>
    /\ \A i \in 1..Len(res) :
           res[i].hasCards =>
               /\ res[i].status = 200
               /\ ~threw
               /\ kept = CollectBlocks(variant, CandidateNodes(variant, dom))

\* C10 witness: the block loop had pushed a record when the exception was
\* thrown, and the answer is a 500 without cards
C10_Witness ==
    /\ threw
    /\ kept # <<>>
    /\ res # <<>> /\ res[1].status = 500 /\ ~res[1].hasCards

-----------------------------------------------------------------------------
(* The early answers *)

\* C11: when setSlug is missing (absent or the empty string) every handler
\* answers 400 in its first step and is finished: no fetch has been issued or
\* resolved, no browser launched, nothing waited for, no document parsed and
\* nothing thrown
C11_MissingSlug ==
    (req.setSlug \in {Null, <<>>} /\ pc # "start") =>
        /\ pc = "done"
        /\ Len(res) = 1 /\ res[1].status = 400 /\ ~res[1].hasCards
        /\ upstream = 0
        /\ browser = "none"
        /\ elapsed = 0
        /\ ~threw
        /\ dom = <<>> /\ chosen = <<>> /\ kept = <<>>

\* C11 witness: a headless handler called with an empty setSlug has answered
\* 400 without a browser
C11_Witness ==
    /\ variant \in Headless
    /\ req.setSlug = <<>>
    /\ pc = "done"
    /\ res # <<>> /\ res[1].status = 400
    /\ browser = "none"

-----------------------------------------------------------------------------
(* The structural files: selection and assembly *)

\* the files that choose their blocks by structural queries
Structural == {"fetch", "fetchPlain", "headless"}

\* C13 as stated: in the structural files the assembled list, and so the
\* cards of the answer, holds for every identity key only the first admitted
\* block with that key (blocks whose key has both components empty are all
\* kept): no two records share a non-empty key
C13_StructuralDedup ==
    (variant \in Structural /\ Responded200) =>
        /\ rows = Pick(kept,
                       {i \in 1..Len(kept) :
                           \/ IdentityKey(kept[i]) = <<<<>>, <<>>>>
                           \/ \A j \in 1..(i - 1) :
                                  IdentityKey(kept[j]) # IdentityKey(kept[i])})
        /\ \A i, j \in 1..Len(res[Len(res)].cards) :
               (i < j /\ IdentityKey(res[Len(res)].cards[i])
                             = IdentityKey(res[Len(res)].cards[j]))
                   => IdentityKey(res[Len(res)].cards[i]) = <<<<>>, <<>>>>

\* the positions of the document's nodes that query number i of file v matches
Hits(v, i) ==
    {k \in 1..Len(dom) : MatchesSelector(dom[k], SelectorsOf(v)[i])}

\* the divs of the document whose text contains the total-population phrase
MarkerDivs ==
    {k \in 1..Len(dom) :
        /\ dom[k].tag = "div"
        /\ Contains(Lower(NodeText(dom[k])), TotalPopulationLower)}

\* C14: the blocks a structural file iterates over are the matches of the
\* query with the greatest match count, the earliest such query on equal
\* counts, in document order; they are the fallback's divs (those whose text
\* contains the total-population phrase) if and only if every query of the
\* list has zero matches
C14_BlockSelector ==
    variant \in Structural =>
        LET n == Len(SelectorsOf(variant))
        IN  IF \A i \in 1..n : Hits(variant, i) = {}
            THEN chosen = Pick(dom, MarkerDivs)
            ELSE \E i \in 1..n :
                    /\ \A j \in 1..n :
                           Cardinality(Hits(variant, j))
                               <= Cardinality(Hits(variant, i))
                    /\ \A j \in 1..(i - 1) :
                           Cardinality(Hits(variant, j))
                               < Cardinality(Hits(variant, i))
                    /\ chosen = Pick(dom, Hits(variant, i))

\* C14 witness: an earlier query has a match, a later one has more, and the
\* later one's matches were taken
C14_Witness ==
    /\ variant \in Structural
    /\ Responded200
    /\ \E i, j \in 1..Len(SelectorsOf(variant)) :
           /\ i < j
           /\ Hits(variant, i) # {}
           /\ Cardinality(Hits(variant, i)) < Cardinality(Hits(variant, j))
           /\ chosen = Pick(dom, Hits(variant, j))
           /\ chosen # Pick(dom, Hits(variant, i))

\* s has a character that is not whitespace
NonBlank(s) == \E i \in 1..Len(s) : ~IsSpace(s[i])

\* the text of the first child of the node of the given kind, empty if none
FirstOfKind(node, kind) ==
    IF \E i \in 1..Len(node.parts) : node.parts[i].kind = kind
    THEN node.parts[CHOOSE i \in 1..Len(node.parts) :
                        /\ node.parts[i].kind = kind
                        /\ \A j \in 1..(i - 1) : node.parts[j].kind # kind].text
    ELSE <<>>

\* the structural files extract a non-empty name from the node
HasName(node) ==
    \E kind \in {"h2", "h3", "name"} : NonBlank(FirstOfKind(node, kind))

\* the structural files extract non-empty details from the node
HasDetails(node) ==
    \E kind \in {"p", "details"} : NonBlank(FirstOfKind(node, kind))

\* the normalized text holds "total", optional whitespace, "population",
\* in any case
HasMarker(node) ==
    \/ Contains(Lower(BlockText(node)), TotalPopulationLower)
    \/ Contains(Lower(BlockText(node)), NoSpace(TotalPopulationLower))

\* HasMarker, HasName and HasDetails of every node of the model's documents
AcceptFacts ==
    [node \in Nodes |-> [marker   |-> HasMarker(node),
                         named    |-> HasName(node),
                         detailed |-> HasDetails(node)]]

\* C15: in the structural files the assembled list holds one record for each
\* selected block whose normalized text has the total-population marker and
\* whose name or details is non-empty, in selection order, and nothing else
\* (a block without a name but with details is kept)
C15_StructuralAcceptance ==
    (variant \in Structural /\ Responded200) =>
        LET admitted ==
                Pick(chosen, {k \in 1..Len(chosen) :
                                 /\ AcceptFacts[chosen[k]].marker
                                 /\ \/ AcceptFacts[chosen[k]].named
                                    \/ AcceptFacts[chosen[k]].detailed})
        IN  /\ Len(rows) = Len(admitted)
            /\ kept = rows
            /\ \A n \in 1..Len(rows) :
                   /\ <<rows[n]>> = KeepTable[variant][admitted[n]]
                   /\ rows[n].name # <<>> \/ rows[n].details # <<>>
                   /\ rows[n].name = <<>> <=> ~AcceptFacts[admitted[n]].named

\* C15 witness: a selected block with a blank heading and a paragraph was
\* kept as a record without a name
C15_Witness ==
    /\ variant \in Structural
    /\ Responded200
    /\ \E n \in 1..Len(rows) : rows[n].name = <<>> /\ rows[n].details # <<>>

-----------------------------------------------------------------------------
(* The strict sweep: the gate and the mapping *)

\* C16 as stated: every record the strict sweep emits has a card number and
\* a grades mapping with at least three keys (one for each distinct grade
\* label the gate counted)
C16_StrictThreeKeys ==
    (variant = "strict" /\ Responded200) =>
        \A n \in 1..Len(res[Len(res)].cards) :
            /\ res[Len(res)].cards[n].cardNumber # Null
            /\ Cardinality(DOMAIN res[Len(res)].cards[n].grades)
                   >= MinDistinctGrades

-----------------------------------------------------------------------------
(* One answer per invocation *)

\* the status the path taken calls for
PathStatus ==
    IF req.setSlug \in {Null, <<>>} THEN 400
    ELSE IF threw THEN 500
    ELSE IF variant \in Direct /\ upstream # 0 /\ ~(upstream \in 200..299)
         THEN upstream
    ELSE 200

\* C17: a handler never sends a second answer, has sent exactly one when it
\* is finished, sends none before the point where it returns (after an answer
\* only the finally block runs), and the status is that of the path taken:
\* 400 on a missing slug, 500 after an exception, the upstream status after a
\* fetch that was not ok, 200 otherwise
C17_ExactlyOneResponse ==
    /\ Len(res) <= 1
    /\ pc = "done" => Len(res) = 1
    /\ res # <<>> => pc \in {"finally", "done"}
    /\ res # <<>> => res[1].status = PathStatus

\* C17 witness: a direct-fetch handler whose fetch resolved with 200 and
\* whose body read then failed has finished with its one answer, the 500
C17_Witness ==
    /\ variant \in Direct
    /\ pc = "done"
    /\ upstream = 200
    /\ threw
    /\ Len(res) = 1 /\ res[1].status = 500

====
